---------------------------- MODULE Spec2Model ----------------------------
(***************************************************************************)
(* A model of app.py, the Streamlit feedback application: the session      *)
(* state (page, logged_in, company_info, feedbacks), the persisted         *)
(* document feedbacks.json, the submission pipeline of show_feedback_form, *)
(* the rule-based process_feedback_with_ai, and the login gate.            *)
(*                                                                         *)
(* A Python str that the program inspects character by character (the      *)
(* feedback text, a category name) is a sequence of one-character strings; *)
(* a str that the program only concatenates or compares as a whole (the    *)
(* company description, a recommendation, a user name) is a TLA+ string.   *)
(* The values of datetime.now() (the timestamp of an entry, created_at of   *)
(* a profile) are not modelled: no operation of the program reads them.    *)
(***************************************************************************)
EXTENDS Integers, Sequences, FiniteSets, TLC

VARIABLES
    page,           \* st.session_state.page
    logged_in,      \* st.session_state.get('logged_in', False)
    company_info,   \* st.session_state.company_info (None or a profile)
    feedbacks,      \* st.session_state.feedbacks, front of the list first
    feedback_file,  \* the document feedbacks.json on disk
    view,           \* what the last script run rendered in the main area
    flash,          \* the message the last script run showed, and the
                    \* form input (feedback text, or login pair) it read
    issued,         \* history: the ids of the records inserted, in order
    failed_saves,   \* history: how many save_feedbacks calls have raised
    arg_text,       \* argument feedback_text of a direct classifier call
    arg_context,    \* argument company_context of a direct classifier call
    ret             \* the pair returned by that call, or NoValue

vars ==
    <<page, logged_in, company_info, feedbacks, feedback_file, view, flash,
      issued, failed_saves, arg_text, arg_context, ret>>

app_vars ==
    <<page, logged_in, company_info, feedbacks, feedback_file, view, flash,
      issued, failed_saves>>

call_vars ==
    <<arg_text, arg_context, ret>>

(***************************************************************************)
(* Bounds of the model.                                                    *)
(***************************************************************************)
MaxSubmits == 2      \* records inserted over one behaviour
MaxFailures == 1     \* save_feedbacks calls that raise over one behaviour
MaxPieces == 2       \* pieces concatenated into a classifier input

(***************************************************************************)
(* Program constants.                                                      *)
(***************************************************************************)
ShortLimit == 20     \* len(feedback_text) < 20
SliderMin == 1       \* st.slider("Rating (1-5 stars)", 1, 5, 3)
SliderMax == 5

\* Python None, as the value of company_info and of ret
NoValue == [none |-> TRUE]

(***************************************************************************)
(* Python str operations on character sequences.                           *)
(***************************************************************************)
Whitespace == {" ", "\t", "\n"}

RECURSIVE lstrip(_)
lstrip(s) ==
    IF s # <<>> /\ Head(s) \in Whitespace THEN lstrip(Tail(s)) ELSE s

RECURSIVE rstrip(_)
rstrip(s) ==
    IF s # <<>> /\ s[Len(s)] \in Whitespace
    THEN rstrip(SubSeq(s, 1, Len(s) - 1))
    ELSE s

\* str.strip()
strip(s) == rstrip(lstrip(s))

LowerChar(c) ==
    CASE c = "A" -> "a" [] c = "B" -> "b" [] c = "C" -> "c" [] c = "D" -> "d"
      [] c = "E" -> "e" [] c = "F" -> "f" [] c = "G" -> "g" [] c = "H" -> "h"
      [] c = "I" -> "i" [] c = "J" -> "j" [] c = "K" -> "k" [] c = "L" -> "l"
      [] c = "M" -> "m" [] c = "N" -> "n" [] c = "O" -> "o" [] c = "P" -> "p"
      [] c = "Q" -> "q" [] c = "R" -> "r" [] c = "S" -> "s" [] c = "T" -> "t"
      [] c = "U" -> "u" [] c = "V" -> "v" [] c = "W" -> "w" [] c = "X" -> "x"
      [] c = "Y" -> "y" [] c = "Z" -> "z" [] OTHER -> c

\* str.lower()
RECURSIVE lower(_)
lower(s) ==
    IF s = <<>> THEN <<>> ELSE <<LowerChar(Head(s))>> \o lower(Tail(s))

\* kw in s
Contains(s, kw) ==
    \E i \in 1..(Len(s) - Len(kw) + 1) : SubSeq(s, i, i + Len(kw) - 1) = kw

Kw_slow == <<"s","l","o","w">>
Kw_wait == <<"w","a","i","t">>
Kw_dirty == <<"d","i","r","t","y">>
Kw_clean == <<"c","l","e","a","n">>
Kw_rude == <<"r","u","d","e">>
Kw_unfriendly == <<"u","n","f","r","i","e","n","d","l","y">>
Kw_staff == <<"s","t","a","f","f">>
Kw_price == <<"p","r","i","c","e">>
Kw_expensive == <<"e","x","p","e","n","s","i","v","e">>
Kw_cheap == <<"c","h","e","a","p">>
Kw_food == <<"f","o","o","d">>
Kw_meal == <<"m","e","a","l">>
Kw_taste == <<"t","a","s","t","e">>
Kw_long == <<"l","o","n","g">>
Kw_boring == <<"b","o","r","i","n","g">>
Kw_good == <<"g","o","o","d">>
Kw_great == <<"g","r","e","a","t">>
Kw_excellent == <<"e","x","c","e","l","l","e","n","t">>

(***************************************************************************)
(* process_feedback_with_ai                                                *)
(***************************************************************************)
WrapPrefix ==
    <<"C","u","s","t","o","m","e","r"," ","f","e","e","d","b","a","c","k"," ",
      "i","n","d","i","c","a","t","e","s",":"," ">>

WrapSuffix ==
    <<"."," ","A","d","d","i","t","i","o","n","a","l"," ","c","o","n","t","e",
      "x","t"," ","w","o","u","l","d"," ","b","e"," ","h","e","l","p","f","u",
      "l",".">>

RecStaffing ==
    "Recommendation: Increase staff during peak hours. Consider implementing a queue management system. "
RecCleaning ==
    "Recommendation: Implement more frequent cleaning schedules and conduct regular hygiene inspections."
RecTraining ==
    "Recommendation: Provide customer service training for staff and establish clear communication guidelines."
RecPricing ==
    "Recommendation: Review pricing strategy and consider offering value packages or loyalty programs."
RecMenu ==
    "Recommendation: Gather specific feedback about menu items and consider taste testing with focus groups."
RecPacing ==
    "Recommendation: Break sessions into shorter segments with interactive elements and regular breaks."
RecPositive ==
    "Positive feedback received! Continue maintaining these high standards and consider what's working well."
RecFollowUp ==
    "Recommendation: Follow up with customer for more specific details. "
RecSessions ==
    "Consider implementing regular feedback sessions."

\* a variant that measures the trimmed text
ImproveTrimmed(feedback_text) ==
    IF Len(strip(feedback_text)) < ShortLimit
    THEN WrapPrefix \o feedback_text \o WrapSuffix
    ELSE feedback_text

\* lines 55-60: the improved text
Improve(feedback_text) ==
    IF Len(feedback_text) < ShortLimit
    THEN WrapPrefix \o feedback_text \o WrapSuffix
    ELSE feedback_text

\* a variant that tests dirty/clean before slow/wait
SolveCleanFirst(feedback_text, company_context) ==
    LET lower_feedback == lower(feedback_text)
        has(kw) == Contains(lower_feedback, kw)
    IN  IF has(Kw_dirty) \/ has(Kw_clean)
            THEN RecCleaning
        ELSE IF has(Kw_slow) \/ has(Kw_wait)
            THEN RecStaffing \o company_context
        ELSE IF has(Kw_rude) \/ has(Kw_unfriendly) \/ has(Kw_staff)
            THEN RecTraining
        ELSE IF has(Kw_price) \/ has(Kw_expensive) \/ has(Kw_cheap)
            THEN RecPricing
        ELSE IF has(Kw_food) \/ has(Kw_meal) \/ has(Kw_taste)
            THEN RecMenu
        ELSE IF has(Kw_long) \/ has(Kw_boring)
            THEN RecPacing
        ELSE IF has(Kw_good) \/ has(Kw_great) \/ has(Kw_excellent)
            THEN RecPositive
        ELSE RecFollowUp \o
             (IF company_context # "" THEN company_context ELSE RecSessions)

\* lines 62-80: the chain of keyword tests on the lower-cased text
Solve(feedback_text, company_context) ==
    LET lower_feedback == lower(feedback_text)
        has(kw) == Contains(lower_feedback, kw)
    IN  IF has(Kw_slow) \/ has(Kw_wait)
            THEN RecStaffing \o company_context
        ELSE IF has(Kw_dirty) \/ has(Kw_clean)
            THEN RecCleaning
        ELSE IF has(Kw_rude) \/ has(Kw_unfriendly) \/ has(Kw_staff)
            THEN RecTraining
        ELSE IF has(Kw_price) \/ has(Kw_expensive) \/ has(Kw_cheap)
            THEN RecPricing
        ELSE IF has(Kw_food) \/ has(Kw_meal) \/ has(Kw_taste)
            THEN RecMenu
        ELSE IF has(Kw_long) \/ has(Kw_boring)
            THEN RecPacing
        ELSE IF has(Kw_good) \/ has(Kw_great) \/ has(Kw_excellent)
            THEN RecPositive
        ELSE RecFollowUp \o
             (IF company_context # "" THEN company_context ELSE RecSessions)

\* the returned pair (improved, solution); category is not used by the body
process_feedback_with_ai(feedback_text, category, company_context) ==
    <<Improve(feedback_text), Solve(feedback_text, company_context)>>


(***************************************************************************)
(* Records and the JSON document.                                          *)
(***************************************************************************)
FieldOrder ==
    <<"id", "company", "category", "rating", "original", "improved",
      "solution">>

\* json.dump of one dict: its items in insertion order
EncodeEntry(e) == [i \in 1..Len(FieldOrder) |-> <<FieldOrder[i], e[FieldOrder[i]]>>]

\* the value stored under name k in a JSON object
ValueOf(o, k) == o[CHOOSE i \in 1..Len(o) : o[i][1] = k][2]

\* json.load of one object: a dict keyed by the names read
DecodeObject(o) == [k \in {o[i][1] : i \in 1..Len(o)} |-> ValueOf(o, k)]

AbsentFile == [status |-> "absent", doc |-> <<>>]

\* the document json.dump(feedbacks, f, indent=2) writes in full
Document(fbs) == [status |-> "complete", doc |-> [i \in 1..Len(fbs) |-> EncodeEntry(fbs[i])]]

\* the file after open(FEEDBACK_FILE, 'w') truncated it and only the first k
\* objects of the new document reached the disk
TornDocument(fbs, k) ==
    [status |-> "torn", doc |-> [i \in 1..k |-> EncodeEntry(fbs[i])]]

\* json.load raises on a document that is not closed
LoadRaises(f) == f.status = "torn"

\* load_feedbacks()
load_feedbacks(f) ==
    IF f.status = "absent" THEN <<>>
    ELSE [i \in 1..Len(f.doc) |-> DecodeObject(f.doc[i])]

\* lines 45-46, run at the top of every script run
Startup(fbs, f) ==
    IF fbs = <<>> /\ ~LoadRaises(f) THEN load_feedbacks(f) ELSE fbs

\* a script run stops at line 46 when the load raises
Crashed(fbs, f) == fbs = <<>> /\ LoadRaises(f)

(***************************************************************************)
(* Routing and rendering (main, show_dashboard).                           *)
(***************************************************************************)
Pages == {"home", "setup", "feedback", "login", "dashboard"}

\* show_dashboard sends a visitor who is not logged in to the login page
Route(p, li) == IF p = "dashboard" /\ ~li THEN "login" ELSE p

\* the main area of a finished script run: the screen, and the feedback
\* entries listed on it (only the dashboard lists entries)
Render(p, li, fbs) ==
    [screen |-> Route(p, li),
     listed |-> IF Route(p, li) = "dashboard" THEN fbs ELSE <<>>]

ErrorView == [screen |-> "exception", listed |-> <<>>]

NoFlash == [msg |-> "", input |-> <<>>]

MsgThanks == "Thank you! Your feedback has been submitted successfully."
MsgEnterFeedback == "Please enter your feedback before submitting."
MsgInvalidCredentials == "Invalid credentials. Try username: admin, password: admin123"
MsgGenerated == "Feedback system generated successfully!"
MsgRequired == "Please fill in all required fields (*)"
MsgSaveRaised == "OSError"

(***************************************************************************)
(* Form inputs.                                                            *)
(***************************************************************************)
TextEmpty == <<>>
TextBlank == <<" ","\n">>
TextPadded ==
    <<" ","o","k"," "," "," "," "," "," "," "," "," "," "," "," "," "," "," "," "," ">>

\* the texts typed into the feedback form: two that line 231 rejects and one
\* it admits, padded with whitespace
FormTexts == {TextEmpty, TextBlank, TextPadded}

SliderInputs == {SliderMin, SliderMax}

DefaultCategories ==
    << <<"G","e","n","e","r","a","l">>, <<"S","e","r","v","i","c","e">>,
       <<"Q","u","a","l","i","t","y">>, <<"E","n","v","i","r","o","n","m","e","n","t">> >>

\* the setup form as submitted; custom_categories is given by its
\* comma-separated segments
SetupForms ==
    { [company_name |-> "Sunset Restaurant", company_type |-> "Restaurant",
       company_description |-> "Seaside diner",
       focus_areas |-> <<"Customer Service", "Product Quality">>,
       custom_categories |-> << <<" ","F","o","o","d"," ">> >>,
       enable_rating |-> FALSE],
      [company_name |-> "Hill School", company_type |-> "School",
       company_description |-> "Evening classes",
       focus_areas |-> <<"Communication">>,
       custom_categories |-> << <<"G","e","n","e","r","a","l">> >>,
       enable_rating |-> TRUE],
      [company_name |-> "", company_type |-> "Other",
       company_description |-> "No name given",
       focus_areas |-> <<>>,
       custom_categories |-> << <<"G","e","n","e","r","a","l">> >>,
       enable_rating |-> TRUE] }

Usernames == {"admin", "Admin"}
Passwords == {"admin123", ""}

(***************************************************************************)
(* The state after the first script run of a fresh session on a machine    *)
(* without feedbacks.json (lines 22-46, then main renders the home page).  *)
(***************************************************************************)
InitApp ==
    /\ page = "home"
    /\ logged_in = FALSE
    /\ company_info = NoValue
    /\ feedbacks = <<>>
    /\ feedback_file = AbsentFile
    /\ view = Render("home", FALSE, <<>>)
    /\ flash = NoFlash
    /\ issued = <<>>
    /\ failed_saves = 0

IdleCall ==
    /\ arg_text = <<>>
    /\ arg_context = ""
    /\ ret = NoValue

Init == InitApp /\ IdleCall

\* widgets exist only when the script run got past line 46
Rendered == ~Crashed(feedbacks, feedback_file)

\* navigate_to(target) and the script run that st.rerun() starts
GoTo(target) ==
    /\ page' = Route(target, logged_in)
    /\ feedbacks' = Startup(feedbacks, feedback_file)
    /\ view' = Render(target, logged_in, feedbacks')
    /\ flash' = NoFlash
    /\ UNCHANGED <<logged_in, company_info, feedback_file, issued,
                   failed_saves, call_vars>>

\* the four sidebar buttons of main; "Dashboard" leads to the login page
SidebarNavigate(target) ==
    /\ Rendered
    /\ target \in {"home", "setup", "feedback", "login"}
    /\ GoTo(target)

\* the "Back to Home" / "Home" button of the setup, feedback, login and
\* dashboard pages
BackToHome ==
    /\ Rendered
    /\ view.screen \in {"setup", "feedback", "login", "dashboard"}
    /\ GoTo("home")

\* "Submit Another Feedback": st.rerun() on the feedback page
SubmitAnother ==
    /\ Rendered
    /\ view.screen = "feedback"
    /\ GoTo(page)

\* "Go to Feedback Form" of the empty dashboard
DashboardToFeedback ==
    /\ Rendered
    /\ view.screen = "dashboard"
    /\ feedbacks = <<>>
    /\ GoTo("feedback")

\* a variant that checks the user name only
AuthenticatedByName(username, password) == username = "admin"

\* line 290: the credential check
Authenticated(username, password) ==
    username = "admin" /\ password = "admin123"

\* show_login, the Login button of login_form
Login(username, password) ==
    /\ Rendered
    /\ view.screen = "login"
    /\ IF Authenticated(username, password)
       THEN /\ logged_in' = TRUE
            /\ page' = Route("dashboard", logged_in')
            /\ feedbacks' = Startup(feedbacks, feedback_file)
            /\ view' = Render("dashboard", logged_in', feedbacks')
            /\ flash' = [msg |-> "", input |-> <<username, password>>]
       ELSE /\ flash' = [msg |-> MsgInvalidCredentials,
                         input |-> <<username, password>>]
            /\ feedbacks' = Startup(feedbacks, feedback_file)
            /\ view' = Render(page, logged_in, feedbacks')
            /\ UNCHANGED <<logged_in, page>>
    /\ UNCHANGED <<company_info, feedback_file, issued, failed_saves,
                   call_vars>>

\* show_dashboard, the Logout button
Logout ==
    /\ Rendered
    /\ view.screen = "dashboard"
    /\ logged_in' = FALSE
    /\ page' = Route("home", logged_in')
    /\ feedbacks' = Startup(feedbacks, feedback_file)
    /\ view' = Render("home", logged_in', feedbacks')
    /\ flash' = NoFlash
    /\ UNCHANGED <<company_info, feedback_file, issued, failed_saves,
                   call_vars>>

\* show_setup, the submit button of company_setup; what follows the
\* assignment of line 180 (the QR image, the nested button) changes no state
Setup(form) ==
    /\ Rendered
    /\ view.screen = "setup"
    /\ IF form.company_name # "" /\ form.company_description # ""
       THEN /\ company_info' =
                 [name |-> form.company_name,
                  type |-> form.company_type,
                  description |-> form.company_description,
                  focus_areas |-> form.focus_areas,
                  categories |-> [i \in 1..Len(form.custom_categories) |->
                                     strip(form.custom_categories[i])],
                  enable_rating |-> form.enable_rating]
            /\ flash' = [msg |-> MsgGenerated, input |-> <<>>]
       ELSE /\ flash' = [msg |-> MsgRequired, input |-> <<>>]
            /\ UNCHANGED company_info
    /\ feedbacks' = Startup(feedbacks, feedback_file)
    /\ view' = Render(page, logged_in, feedbacks')
    /\ UNCHANGED <<page, logged_in, feedback_file, issued,
                   failed_saves, call_vars>>

\* the three buttons of show_home
HomeButton(target) ==
    /\ Rendered
    /\ view.screen = "home"
    /\ target \in {"setup", "login", "feedback"}
    /\ GoTo(target)

(***************************************************************************)
(* show_feedback_form                                                      *)
(***************************************************************************)
\* lines 200-208: the settings the form is rendered with
FormSettings(ci) ==
    IF ci = NoValue
    THEN [company_name |-> "Our Company",
          categories |-> DefaultCategories,
          enable_rating |-> TRUE]
    ELSE [company_name |-> ci.name,
          categories |-> ci.categories,
          enable_rating |-> ci.enable_rating]

\* a variant that always reads the slider
FormRatingAlways(enable_rating, slider) == slider

\* lines 217-220: the slider value, or 0 when the slider is not rendered
FormRating(enable_rating, slider) == IF enable_rating THEN slider ELSE 0

\* lines 234-236
CompanyContext(ci) ==
    IF ci # NoValue THEN "Company context: " \o ci.description ELSE ""

\* a variant that tests the text without trimming it
AcceptedUntrimmed(feedback_text) == feedback_text # <<>>

\* line 231: the test that admits a submission
Accepted(feedback_text) == strip(feedback_text) # <<>>

\* line 246
NextId(fbs) == Len(fbs) + 1

\* lines 238-254: the entry built for an accepted submission
FeedbackEntry(fbs, ci, category, rating, feedback_text) ==
    LET pair == process_feedback_with_ai(feedback_text, category,
                                         CompanyContext(ci))
    IN  [id |-> NextId(fbs),
         company |-> FormSettings(ci).company_name,
         category |-> category,
         rating |-> rating,
         original |-> feedback_text,
         improved |-> pair[1],
         solution |-> pair[2]]

\* a variant that appends at the back
InsertBack(fbs, entry) == fbs \o <<entry>>

\* line 256: feedbacks.insert(0, feedback_entry)
InsertFront(fbs, entry) == <<entry>> \o fbs

\* the option of the category selectbox tried by the model: the last one
CategoryChoices(categories) == {Len(categories)}

\* lines 230-257 for an accepted text, up to and including the insert; the
\* caller states what save_feedbacks did
InsertEntry(feedback_text, choice, slider) ==
    LET fbs == Startup(feedbacks, feedback_file)
        settings == FormSettings(company_info)
        entry == FeedbackEntry(fbs, company_info,
                               settings.categories[choice],
                               FormRating(settings.enable_rating, slider),
                               feedback_text)
    IN  /\ Rendered
        /\ view.screen = "feedback"
        /\ choice \in CategoryChoices(settings.categories)
        /\ Accepted(feedback_text)
        /\ Len(issued) < MaxSubmits
        /\ feedbacks' = InsertFront(fbs, entry)
        /\ issued' = Append(issued, entry.id)
        /\ view' = Render(page, logged_in, feedbacks')
        /\ UNCHANGED <<page, logged_in, company_info, call_vars>>

\* the Submit button of feedback_form when save_feedbacks returns, or when
\* the text is rejected
SubmitFeedback(feedback_text, choice, slider) ==
    \/ /\ InsertEntry(feedback_text, choice, slider)
       /\ feedback_file' = Document(feedbacks')
       /\ flash' = [msg |-> MsgThanks, input |-> feedback_text]
       /\ UNCHANGED failed_saves
    \/ /\ Rendered
       /\ view.screen = "feedback"
       /\ choice \in CategoryChoices(FormSettings(company_info).categories)
       /\ ~Accepted(feedback_text)
       /\ flash' = [msg |-> MsgEnterFeedback, input |-> feedback_text]
       /\ feedbacks' = Startup(feedbacks, feedback_file)
       /\ view' = Render(page, logged_in, feedbacks')
       /\ UNCHANGED <<page, logged_in, company_info, feedback_file,
                      issued, failed_saves, call_vars>>

\* the Submit button when open(FEEDBACK_FILE, 'w') raises: nothing is
\* written, the exception ends the script run after the insert
SubmitFeedbackOpenRaises(feedback_text, choice, slider) ==
    /\ failed_saves < MaxFailures
    /\ InsertEntry(feedback_text, choice, slider)
    /\ failed_saves' = failed_saves + 1
    /\ flash' = [msg |-> MsgSaveRaised, input |-> feedback_text]
    /\ UNCHANGED feedback_file

\* the Submit button when json.dump raises after open truncated the file
\* and written objects of the new document reached it
SubmitFeedbackWriteRaises(feedback_text, choice, slider, written) ==
    /\ failed_saves < MaxFailures
    /\ InsertEntry(feedback_text, choice, slider)
    /\ written \in 0..(Len(feedbacks') - 1)
    /\ failed_saves' = failed_saves + 1
    /\ flash' = [msg |-> MsgSaveRaised, input |-> feedback_text]
    /\ feedback_file' = TornDocument(feedbacks', written)

\* the browser reloads the page: a new session whose first script run
\* executes lines 22-46 and renders the home page, or stops at line 46
Reload ==
    /\ page' = "home"
    /\ logged_in' = FALSE
    /\ company_info' = NoValue
    /\ feedbacks' = Startup(<<>>, feedback_file)
    /\ view' = IF Crashed(<<>>, feedback_file) THEN ErrorView
               ELSE Render("home", FALSE, feedbacks')
    /\ flash' = NoFlash
    /\ UNCHANGED <<feedback_file, issued, failed_saves, call_vars>>

Next ==
    \/ \E target \in Pages : SidebarNavigate(target)
    \/ \E target \in Pages : HomeButton(target)
    \/ BackToHome
    \/ SubmitAnother
    \/ DashboardToFeedback
    \/ \E u \in Usernames, p \in Passwords : Login(u, p)
    \/ Logout
    \/ \E form \in SetupForms : Setup(form)
    \/ \E t \in FormTexts, c \in 1..Len(DefaultCategories), r \in SliderInputs :
          SubmitFeedback(t, c, r)
    \/ \E t \in FormTexts, c \in 1..Len(DefaultCategories), r \in SliderInputs :
          SubmitFeedbackOpenRaises(t, c, r)
    \/ \E t \in FormTexts, c \in 1..Len(DefaultCategories), r \in SliderInputs :
          \E k \in 0..MaxSubmits : SubmitFeedbackWriteRaises(t, c, r, k)
    \/ Reload

Spec == Init /\ [][Next]_vars

(***************************************************************************)
(* Direct calls of process_feedback_with_ai on a range of texts.           *)
(***************************************************************************)
Pad10 == <<" "," "," "," "," "," "," "," "," "," ">>

\* the pieces a classifier input is put together from: every keyword,
\* upper-case spellings, keyword halves, filler and whitespace
Pieces ==
    { Kw_slow, Kw_wait, Kw_dirty, Kw_clean, Kw_rude, Kw_unfriendly, Kw_staff,
      Kw_price, Kw_expensive, Kw_cheap, Kw_food, Kw_meal, Kw_taste, Kw_long,
      Kw_boring, Kw_good, Kw_great, Kw_excellent,
      <<"S","L","O","W">>, <<"C","l","e","a","n">>, <<"s","l">>, <<"o","w">>,
      <<"x">>, <<" ">>, Pad10 }

RECURSIVE TextsOf(_)
TextsOf(n) ==
    IF n = 0 THEN {<<>>}
    ELSE LET shorter == TextsOf(n - 1)
         IN  shorter \cup {t \o piece : t \in shorter, piece \in Pieces}

CallTexts == TextsOf(MaxPieces)

CallContexts == {"", "Company context: Seaside diner"}

InitCall ==
    /\ InitApp
    /\ arg_text \in CallTexts
    /\ arg_context \in CallContexts
    /\ ret = NoValue

\* improved, solution = process_feedback_with_ai(feedback_text, category,
\* company_context)
Call ==
    /\ ret = NoValue
    /\ ret' = process_feedback_with_ai(arg_text, DefaultCategories[1],
                                       arg_context)
    /\ UNCHANGED <<app_vars, arg_text, arg_context>>

NextCall == Call

SpecCall == InitCall /\ [][NextCall]_vars

(***************************************************************************)
(* Properties of the classifier and the normalizer (under SpecCall).       *)
(***************************************************************************)
\* the seven ordered keyword groups as the specification lists them
KeywordGroups ==
    << {Kw_slow, Kw_wait},
       {Kw_dirty, Kw_clean},
       {Kw_rude, Kw_unfriendly, Kw_staff},
       {Kw_price, Kw_expensive, Kw_cheap},
       {Kw_food, Kw_meal, Kw_taste},
       {Kw_long, Kw_boring},
       {Kw_good, Kw_great, Kw_excellent} >>

GroupRecommendation(g, context) ==
    CASE g = 1 -> RecStaffing \o context
      [] g = 2 -> RecCleaning
      [] g = 3 -> RecTraining
      [] g = 4 -> RecPricing
      [] g = 5 -> RecMenu
      [] g = 6 -> RecPacing
      [] g = 7 -> RecPositive

GenericRecommendation(context) ==
    RecFollowUp \o (IF context = "" THEN RecSessions ELSE context)

\* the groups of which some keyword occurs in the lower-cased text
MatchingGroups(text) ==
    {g \in 1..Len(KeywordGroups) :
        \E kw \in KeywordGroups[g] : Contains(lower(text), kw)}

LowestGroup(text) ==
    CHOOSE g \in MatchingGroups(text) : \A h \in MatchingGroups(text) : g <= h

\* C7: the recommendation returned for a text is that of the lowest-numbered
\* keyword group with a keyword occurring in the lower-cased text, and the
\* generic follow-up recommendation when no group matches; a text with both
\* "slow" and "clean" gets the staffing recommendation; the recommendation is
\* determined by (text, context) and is never empty.
C7_RuleOrder ==
    ret # NoValue =>
        /\ ret[2] = (IF MatchingGroups(arg_text) = {}
                     THEN GenericRecommendation(arg_context)
                     ELSE GroupRecommendation(LowestGroup(arg_text),
                                              arg_context))
        /\ ret[2] # ""
        /\ (Contains(lower(arg_text), Kw_slow) /\ Contains(lower(arg_text), Kw_clean)
              => ret[2] = RecStaffing \o arg_context)

\* a text holding both "clean" and "slow" has been classified as staffing
C7_Witness ==
    /\ ret # NoValue
    /\ arg_text = Kw_clean \o Kw_slow
    /\ ret[2] = RecStaffing \o arg_context

Wrapped(text) == WrapPrefix \o text \o WrapSuffix

\* C8 as stated: for an accepted raw text the improved text is the wrapped
\* form exactly when the trimmed length is below 20, and the raw text itself
\* exactly when the trimmed length is 20 or more.
C8_TrimmedLength ==
    (ret # NoValue /\ Accepted(arg_text)) =>
        /\ ret[1] = Wrapped(arg_text) <=> Len(strip(arg_text)) < ShortLimit
        /\ ret[1] = arg_text <=> Len(strip(arg_text)) >= ShortLimit

\* C8 amended: for an accepted raw text the improved text is the wrapped form
\* exactly when the length of the raw text, untrimmed, is below 20, and the
\* raw text itself exactly when that length is 20 or more.
C8_RawLength ==
    (ret # NoValue /\ Accepted(arg_text)) =>
        /\ ret[1] = Wrapped(arg_text) <=> Len(arg_text) < ShortLimit
        /\ ret[1] = arg_text <=> Len(arg_text) >= ShortLimit

\* an accepted text of raw length 20 and trimmed length 10 came back unchanged
C8_Witness ==
    /\ ret # NoValue
    /\ Accepted(arg_text)
    /\ Len(arg_text) = ShortLimit
    /\ Len(strip(arg_text)) < ShortLimit
    /\ ret[1] = arg_text

(***************************************************************************)
(* Properties of the store and the submission pipeline (under Spec).       *)
(***************************************************************************)
IdsOf(fbs) == [i \in 1..Len(fbs) |-> fbs[i].id]

Countdown(n) == [i \in 1..n |-> n - i + 1]

Countup(n) == [i \in 1..n |-> i]

Entries(fbs) == {fbs[i] : i \in 1..Len(fbs)}

\* the records a reader of feedbacks.json gets; a torn document has none
Persisted(f) == IF LoadRaises(f) THEN {} ELSE Entries(load_feedbacks(f))

\* a step that inserted a record
Inserting == issued' # issued

\* C1: as long as every submission so far succeeded, the n records created
\* carry the ids 1..n in submission order, and the in-memory collection and
\* the collection load() returns both list them newest-first, n down to 1;
\* each submission puts its record at the front and leaves the order of the
\* earlier records unchanged.
C1_NewestFirst ==
    /\ [](failed_saves = 0 =>
            /\ issued = Countup(Len(issued))
            /\ IdsOf(feedbacks) = Countdown(Len(issued))
            /\ ~LoadRaises(feedback_file)
            /\ load_feedbacks(feedback_file) = feedbacks)
    /\ [][Inserting =>
            /\ Tail(feedbacks') = feedbacks
            /\ Head(feedbacks').id = Len(feedbacks) + 1]_vars

\* two submissions succeeded and both collections read 2, 1
C1_Witness ==
    /\ failed_saves = 0
    /\ issued = <<1, 2>>
    /\ IdsOf(feedbacks) = <<2, 1>>
    /\ IdsOf(load_feedbacks(feedback_file)) = <<2, 1>>

\* a step in which the feedback form was submitted
Submitting == flash'.msg \in {MsgThanks, MsgEnterFeedback, MsgSaveRaised}

\* C2: a submission whose text is empty or only whitespace is answered with
\* the error message and changes nothing: no record, the in-memory collection
\* as before, no id consumed, the file not written.
C2_BlankRejected ==
    [][Submitting =>
        /\ strip(flash'.input) = <<>> <=> flash'.msg = MsgEnterFeedback
        /\ flash'.msg = MsgEnterFeedback =>
              /\ feedbacks' = feedbacks
              /\ feedback_file' = feedback_file
              /\ issued' = issued
              /\ NextId(feedbacks') = NextId(feedbacks)]_vars

\* a whitespace-only text was just rejected by a store that holds a record
C2_Witness ==
    /\ flash = [msg |-> MsgEnterFeedback, input |-> TextBlank]
    /\ feedbacks # <<>>
    /\ feedback_file = Document(feedbacks)

Injective(seq) == \A i, j \in 1..Len(seq) : seq[i] = seq[j] => i = j

\* C3: no two records of the in-memory collection or of the persisted
\* collection share an id, ids strictly increase in creation order, and an
\* id given to one submission is never given to another one later.
C3_IdsNeverReused ==
    /\ Injective(IdsOf(feedbacks))
    /\ ~LoadRaises(feedback_file) => Injective(IdsOf(load_feedbacks(feedback_file)))
    /\ \A i, j \in 1..Len(issued) : i < j => issued[i] < issued[j]

\* C4: a record that is in the persisted collection is in the persisted
\* collection, with the same field values, in every later state.
C4_PersistedForever ==
    [][Persisted(feedback_file) \subseteq Persisted(feedback_file')]_vars

\* C5: after a save that failed, the in-memory collection holds no record
\* that is absent from the persisted collection (so the id of the failed
\* submission is the next id again).
C5_FailedSaveRolledBack ==
    flash.msg = MsgSaveRaised =>
        /\ Entries(feedbacks) \subseteq Persisted(feedback_file)
        /\ NextId(feedbacks) = issued[Len(issued)]

\* C6: whenever a save touches the file, the document is afterwards either
\* the complete previous collection or the complete new collection, never an
\* empty or half-written one.
C6_AtomicSave ==
    [][/\ ~LoadRaises(feedback_file')
       /\ feedback_file' \in {feedback_file, Document(feedbacks')}]_vars

RatingsEnabled(ci) == ci = NoValue \/ ci.enable_rating

\* C9: the rating of a record created by a submission is 0 if the profile
\* active at that time disables ratings and an integer in 1..5 otherwise;
\* every record has a rating in 0..5; a setup that replaces the profile
\* leaves the records created before it as they are.
C9_RatingMatchesProfile ==
    /\ [](\A e \in Entries(feedbacks) \cup Persisted(feedback_file) :
            e.rating \in 0..5)
    /\ [][/\ Inserting =>
              IF RatingsEnabled(company_info)
              THEN Head(feedbacks').rating \in 1..5
              ELSE Head(feedbacks').rating = 0
          /\ (company_info' # company_info /\ company_info' # NoValue) =>
              /\ feedbacks' = feedbacks
              /\ feedback_file' = feedback_file]_vars

\* a record rated 5 was created without a profile, a profile that disables
\* ratings was set up, and the next record got the rating 0
C9_Witness ==
    /\ Len(feedbacks) = 2
    /\ feedbacks[2].rating = SliderMax
    /\ feedbacks[1].rating = 0
    /\ company_info # NoValue
    /\ ~company_info.enable_rating

\* C10: the dashboard and the entries it lists are rendered only while
\* logged_in is true; logged_in becomes true only by a login with "admin" and
\* "admin123"; a login with another pair leaves the flag and the page as they
\* were; logged_in becomes false only together with a return to the home
\* page; a visitor who is not logged in is sent from the dashboard page to
\* the login page.
C10_DashboardGated ==
    /\ []((view.screen = "dashboard" \/ view.listed # <<>> \/ page = "dashboard")
            => logged_in)
    /\ [][/\ (~logged_in /\ logged_in') =>
                /\ view.screen = "login"
                /\ flash'.input = <<"admin", "admin123">>
          /\ (flash'.msg = MsgInvalidCredentials /\ flash' # flash) =>
                /\ flash'.input # <<"admin", "admin123">>
                /\ logged_in' = logged_in
                /\ page' = page
          /\ (logged_in /\ ~logged_in') => page' = "home"
          /\ (page' = "dashboard" \/ view'.screen = "dashboard") => logged_in'
         ]_vars

\* the dashboard is on screen, listing a record, after a login
C10_Witness ==
    /\ logged_in
    /\ view.screen = "dashboard"
    /\ view.listed # <<>>
    /\ flash.input = <<"admin", "admin123">>

=============================================================================
